---- MODULE Spec2Model ----
(***************************************************************************)
(* Heading Structure Analyzer (App component).                             *)
(*                                                                         *)
(* The component state (url, headings, isLoading, error, analysisSummary), *)
(* the analyzer analyzeHeadings, the run handler handleFetchAndAnalyze     *)
(* split at its single await, the report formatter formatResultsForExport  *)
(* and the two export handlers.  Strings are TLA+ strings, so template     *)
(* literals, startsWith, trim, repeat and replace are computed character   *)
(* by character.                                                           *)
(***************************************************************************)
EXTENDS Integers, Sequences, FiniteSets, TLC

VARIABLES
    url,              \* useState<string>('')
    headings,         \* useState<HeadingInfo[]>([])
    isLoading,        \* useState<boolean>(false)
    error,            \* useState<string | null>(null): <<>> is null, <<s>> is s
    analysisSummary,  \* useState<string[]>([])
    inflight,         \* runs of handleFetchAndAnalyze suspended at `await fetch`
    pc,               \* exit taken by the latest invocation of handleFetchAndAnalyze
    run,              \* what the latest run saw: entered url, parsed document, failure
    output            \* text handed to the clipboard / download by the latest step

vars == <<url, headings, isLoading, error, analysisSummary, inflight, pc, run, output>>

----------------------------------------------------------------------------
(* Bounds *)

MaxHeadings == 3

----------------------------------------------------------------------------
(* String primitives of the JavaScript runtime used by the component *)

null == <<>>

CharAt(s, i) == SubSeq(s, i, i)

\* String.prototype.startsWith
StartsWith(s, p) == Len(s) >= Len(p) /\ SubSeq(s, 1, Len(p)) = p

WhiteSpace == {" ", "\n", "\t", "\r"}

\* String.prototype.trim
Trim(s) ==
    LET keep  == {i \in 1..Len(s) : CharAt(s, i) \notin WhiteSpace}
        first == CHOOSE i \in keep : \A j \in keep : i <= j
        last  == CHOOSE i \in keep : \A j \in keep : i >= j
    IN  IF keep = {} THEN "" ELSE SubSeq(s, first, last)

\* String.prototype.repeat
RECURSIVE Repeat(_, _)
Repeat(s, n) == IF n <= 0 THEN "" ELSE s \o Repeat(s, n - 1)

Digits == <<"0", "1", "2", "3", "4", "5", "6", "7", "8", "9">>

IsDigit(c) == \E d \in 1..10 : Digits[d] = c

DigitVal(c) == (CHOOSE d \in 1..10 : Digits[d] = c) - 1

NaN == -1

\* parseInt(s, 10): the value of the longest prefix of decimal digits
RECURSIVE ParseIntFrom(_, _, _)
ParseIntFrom(s, i, acc) ==
    IF i > Len(s) \/ ~IsDigit(CharAt(s, i)) THEN acc
    ELSE ParseIntFrom(s, i + 1, 10 * acc + DigitVal(CharAt(s, i)))

ParseInt(s) ==
    IF Len(s) = 0 \/ ~IsDigit(CharAt(s, 1)) THEN NaN ELSE ParseIntFrom(s, 1, 0)

Letters == <<"a", "b", "c", "d", "e", "f", "g", "h", "i", "j", "k", "l", "m",
             "n", "o", "p", "q", "r", "s", "t", "u", "v", "w", "x", "y", "z",
             "A", "B", "C", "D", "E", "F", "G", "H", "I", "J", "K", "L", "M",
             "N", "O", "P", "Q", "R", "S", "T", "U", "V", "W", "X", "Y", "Z">>

IsAlnum(c) == IsDigit(c) \/ \E k \in 1..52 : Letters[k] = c

\* url.replace(/[^a-z0-9]/gi, '_')
RECURSIVE ReplaceNonAlnum(_)
ReplaceNonAlnum(s) ==
    IF Len(s) = 0 THEN ""
    ELSE (IF IsAlnum(CharAt(s, 1)) THEN CharAt(s, 1) ELSE "_")
         \o ReplaceNonAlnum(SubSeq(s, 2, Len(s)))

\* encodeURIComponent on the characters a typed URL is made of
EncodeChar(c) ==
    IF IsAlnum(c) \/ c \in {"-", "_", ".", "!", "~", "*", "'", "(", ")"} THEN c
    ELSE CASE c = ":" -> "%3A"
           [] c = "/" -> "%2F"
           [] c = "?" -> "%3F"
           [] c = "=" -> "%3D"
           [] c = "&" -> "%26"
           [] c = "#" -> "%23"
           [] c = " " -> "%20"
           [] OTHER   -> "%25"

RECURSIVE encodeURIComponent(_)
encodeURIComponent(s) ==
    IF Len(s) = 0 THEN ""
    ELSE EncodeChar(CharAt(s, 1)) \o encodeURIComponent(SubSeq(s, 2, Len(s)))

----------------------------------------------------------------------------
(* analyzeHeadings *)

\* ScanStep with the first heading not exempt from the skip check
ScanStep_NoFirstExempt(acc, h, index) ==
    LET level  == ParseInt(SubSeq(h.tagName, 2, Len(h.tagName)))
        text   == Trim(h.textContent)
        issues == IF level > acc.lastLevel + 1
                  THEN << "Skipped heading level: H" \o ToString(acc.lastLevel)
                          \o " followed by H" \o ToString(level) \o "." >>
                  ELSE << >>
    IN  [ lastLevel    |-> level,
          h1Count      |-> IF level = 1 THEN acc.h1Count + 1 ELSE acc.h1Count,
          headingsInfo |-> Append(acc.headingsInfo,
                                  [ level   |-> level,
                                    text    |-> text,
                                    element |-> index,
                                    issues  |-> issues ]) ]

\* One iteration of headingElements.forEach: acc carries lastLevel, h1Count
\* and headingsInfo; index is the 0-based position of h.
ScanStep(acc, h, index) ==
    LET level  == ParseInt(SubSeq(h.tagName, 2, Len(h.tagName)))
        text   == Trim(h.textContent)
        issues == IF index > 0 /\ level > acc.lastLevel + 1
                  THEN << "Skipped heading level: H" \o ToString(acc.lastLevel)
                          \o " followed by H" \o ToString(level) \o "." >>
                  ELSE << >>
    IN  [ lastLevel    |-> level,
          h1Count      |-> IF level = 1 THEN acc.h1Count + 1 ELSE acc.h1Count,
          headingsInfo |-> Append(acc.headingsInfo,
                                  [ level   |-> level,
                                    text    |-> text,
                                    element |-> index,
                                    issues  |-> issues ]) ]

RECURSIVE Scan(_, _)
Scan(headingElements, n) ==
    IF n = 0
    THEN [ lastLevel |-> 0, h1Count |-> 0, headingsInfo |-> << >> ]
    ELSE ScanStep(Scan(headingElements, n - 1), headingElements[n], n - 1)

\* H1Line warning from the first H1 on
H1Line_WarnFromOne(h1Count) ==
    IF h1Count = 0
    THEN "Error: No H1 tag found. Every page should have one H1."
    ELSE IF h1Count >= 1
    THEN "Warning: Multiple H1 tags found (" \o ToString(h1Count)
         \o "). Best practice is to have only one H1 per page."
    ELSE "Good: Exactly one H1 tag found."

H1Line(h1Count) ==
    IF h1Count = 0
    THEN "Error: No H1 tag found. Every page should have one H1."
    ELSE IF h1Count > 1
    THEN "Warning: Multiple H1 tags found (" \o ToString(h1Count)
         \o "). Best practice is to have only one H1 per page."
    ELSE "Good: Exactly one H1 tag found."

\* SkipLine testing the issue prefix in the wrong case
SkipLine_LowerCase(headingsInfo) ==
    LET skippedLevelIssue ==
            \E i \in 1..Len(headingsInfo) :
                \E k \in 1..Len(headingsInfo[i].issues) :
                    StartsWith(headingsInfo[i].issues[k], "skipped")
    IN  IF skippedLevelIssue
        THEN "Issue: Heading levels are skipped (e.g., H1 followed directly by H3)."
        ELSE "Good: Heading levels follow a logical sequence."

\* SkipLine with headingsInfo.every in place of headingsInfo.some
SkipLine_Every(headingsInfo) ==
    LET skippedLevelIssue ==
            \A i \in 1..Len(headingsInfo) :
                \E k \in 1..Len(headingsInfo[i].issues) :
                    StartsWith(headingsInfo[i].issues[k], "Skipped")
    IN  IF skippedLevelIssue
        THEN "Issue: Heading levels are skipped (e.g., H1 followed directly by H3)."
        ELSE "Good: Heading levels follow a logical sequence."

SkipLine(headingsInfo) ==
    LET skippedLevelIssue ==
            \E i \in 1..Len(headingsInfo) :
                \E k \in 1..Len(headingsInfo[i].issues) :
                    StartsWith(headingsInfo[i].issues[k], "Skipped")
    IN  IF skippedLevelIssue
        THEN "Issue: Heading levels are skipped (e.g., H1 followed directly by H3)."
        ELSE "Good: Heading levels follow a logical sequence."

analyzeHeadings(doc) ==
    LET scan == Scan(doc, Len(doc))
    IN  [ headingsInfo |-> scan.headingsInfo,
          summary      |-> << H1Line(scan.h1Count), SkipLine(scan.headingsInfo) >> ]

----------------------------------------------------------------------------
(* formatResultsForExport *)

RECURSIVE JoinIssues(_, _, _)
JoinIssues(issues, level, k) ==
    IF k > Len(issues) THEN ""
    ELSE Repeat("  ", level - 1) \o "  -> Issue: " \o issues[k] \o "\n"
         \o JoinIssues(issues, level, k + 1)

HeadingLines(h) ==
    Repeat("  ", h.level - 1) \o "H" \o ToString(h.level) \o ": " \o h.text \o "\n"
    \o JoinIssues(h.issues, h.level, 1)

RECURSIVE JoinHeadings(_, _)
JoinHeadings(hs, i) ==
    IF i > Len(hs) THEN "" ELSE HeadingLines(hs[i]) \o JoinHeadings(hs, i + 1)

RECURSIVE JoinSummary(_, _)
JoinSummary(items, i) ==
    IF i > Len(items) THEN ""
    ELSE "- " \o items[i] \o "\n" \o JoinSummary(items, i + 1)

formatResultsForExport ==
    "Heading Structure Analysis for: " \o url \o "\n"
    \o "========================================\n\n"
    \o "Summary:\n"
    \o JoinSummary(analysisSummary, 1)
    \o "\n"
    \o "Headings Found:\n"
    \o JoinHeadings(headings, 1)
    \o "\n========================================\n"

----------------------------------------------------------------------------
(* Inputs: what the user types and what the network and the parser return *)

Urls == {"", "a.com", "https://b.org"}

Levels == 1..6

PlainText == " Title\n"

\* textContent of the first heading: plain, empty, shaped like a report
\* line, and spanning two lines the second of which is shaped like one
FirstTexts == {PlainText, "", "H2: b", "a\n  H2: b"}

\* Heading elements of a parsed document, in document order: every level
\* sequence up to MaxHeadings, the first heading's text drawn from FirstTexts.
Docs ==
    UNION { { [ i \in 1..n |->
                  [ tagName     |-> "H" \o ToString(ls[i]),
                    textContent |-> IF i = 1 THEN t ELSE PlainText ] ] :
              ls \in [1..n -> Levels], t \in FirstTexts } :
            n \in 0..MaxHeadings }

\* response.status / response.statusText of a non-ok response
StatusFailures == { [status |-> 404, statusText |-> "Not Found"],
                    [status |-> 500, statusText |-> ""] }

\* err.message of a rejected fetch() or response.text()
RejectMessages == { "Failed to fetch", "NetworkError when attempting to fetch resource." }

----------------------------------------------------------------------------
(* Component state after the first render *)

NoOutput == [kind |-> "none", text |-> "", name |-> ""]

NoRun == [status |-> "none", url |-> "", doc |-> << >>, message |-> ""]

Init ==
    /\ url = ""
    /\ headings = << >>
    /\ isLoading = FALSE
    /\ error = null
    /\ analysisSummary = << >>
    /\ inflight = << >>
    /\ pc = "none"
    /\ run = NoRun
    /\ output = NoOutput

----------------------------------------------------------------------------
(* What the rendered tree enables *)

\* <input ... disabled={isLoading} />
InputEnabled == ~isLoading

\* the Analyze button never disabled
TriggerEnabled_Always == TRUE

\* <button onClick={handleFetchAndAnalyze} disabled={isLoading}>
TriggerEnabled == ~isLoading

\* {(headings.length > 0 || analysisSummary.length > 0) && !isLoading && (...)}
ResultsVisible == (Len(headings) > 0 \/ Len(analysisSummary) > 0) /\ ~isLoading

----------------------------------------------------------------------------
(* Handlers *)

\* onChange={(e) => setUrl(e.target.value)}
SetUrl(u) ==
    /\ InputEnabled
    /\ u # url
    /\ url' = u
    /\ output' = NoOutput
    /\ UNCHANGED <<headings, isLoading, error, analysisSummary, inflight, pc, run>>

FormattedUrl(u) ==
    IF ~StartsWith(u, "http://") /\ ~StartsWith(u, "https://")
    THEN "https://" \o u
    ELSE u

ProxyUrl(u) == "https://api.allorigins.win/raw?url=" \o encodeURIComponent(FormattedUrl(u))

\* the early return taken after the state resets instead of before them
RejectEmptyUrl_ResetFirst ==
    /\ TriggerEnabled
    /\ url = ""
    /\ headings' = << >>
    /\ analysisSummary' = << >>
    /\ error' = <<"Please enter a URL.">>
    /\ pc' = "rejected"
    /\ output' = NoOutput
    /\ UNCHANGED <<url, isLoading, inflight, run>>

\* handleFetchAndAnalyze up to its early return
RejectEmptyUrl ==
    /\ TriggerEnabled
    /\ url = ""
    /\ error' = <<"Please enter a URL.">>
    /\ pc' = "rejected"
    /\ output' = NoOutput
    /\ UNCHANGED <<url, headings, isLoading, analysisSummary, inflight, run>>

\* StartRun without setHeadings([]) and setAnalysisSummary([])
StartRun_KeepResults ==
    /\ TriggerEnabled
    /\ url # ""
    /\ isLoading' = TRUE
    /\ error' = null
    /\ inflight' = Append(inflight, [url |-> url, proxyUrl |-> ProxyUrl(url)])
    /\ pc' = "awaitFetch"
    /\ run' = [ status  |-> "pending",
                url     |-> url,
                doc     |-> << >>,
                message |-> "" ]
    /\ output' = NoOutput
    /\ UNCHANGED <<url, headings, analysisSummary>>

\* handleFetchAndAnalyze from the state resets up to `await fetch(proxyUrl)`
StartRun ==
    /\ TriggerEnabled
    /\ url # ""
    /\ isLoading' = TRUE
    /\ error' = null
    /\ headings' = << >>
    /\ analysisSummary' = << >>
    /\ inflight' = Append(inflight, [url |-> url, proxyUrl |-> ProxyUrl(url)])
    /\ pc' = "awaitFetch"
    /\ run' = [ status  |-> "pending",
                url     |-> url,
                doc     |-> << >>,
                message |-> "" ]
    /\ output' = NoOutput
    /\ UNCHANGED url

Remove(seq, k) == SubSeq(seq, 1, k - 1) \o SubSeq(seq, k + 1, Len(seq))

\* the catch block with setIsLoading(false) left in the try block only
CatchAndFinish_NoFinally(k, message) ==
    /\ error' = << "Failed to fetch or parse the URL. Error: " \o message
                   \o ". This might be due to network issues, the website blocking requests, or the CORS proxy limitations." >>
    /\ inflight' = SubSeq(inflight, 1, k - 1) \o SubSeq(inflight, k + 1, Len(inflight))
    /\ pc' = "returned"
    /\ run' = [run EXCEPT !.status = "failed", !.message = message]
    /\ output' = NoOutput
    /\ UNCHANGED <<url, headings, analysisSummary, isLoading>>

\* the catch block followed by the finally block
CatchAndFinish(k, message) ==
    /\ error' = << "Failed to fetch or parse the URL. Error: " \o message
                   \o ". This might be due to network issues, the website blocking requests, or the CORS proxy limitations." >>
    /\ isLoading' = FALSE
    /\ inflight' = Remove(inflight, k)
    /\ pc' = "returned"
    /\ run' = [run EXCEPT !.status = "failed", !.message = message]
    /\ output' = NoOutput
    /\ UNCHANGED <<url, headings, analysisSummary>>

\* fetch resolves with response.ok, response.text() resolves, the document
\* is parsed and analysed, then the finally block
FetchOk(k, doc) ==
    /\ k \in 1..Len(inflight)
    /\ run' = [run EXCEPT !.status = "ok", !.doc = doc]
    /\ LET result == analyzeHeadings(doc)
       IN  /\ headings' = result.headingsInfo
           /\ analysisSummary' = result.summary
    /\ isLoading' = FALSE
    /\ inflight' = Remove(inflight, k)
    /\ pc' = "returned"
    /\ output' = NoOutput
    /\ UNCHANGED <<url, error>>

\* fetch resolves with !response.ok
FetchNotOk(k, r) ==
    /\ k \in 1..Len(inflight)
    /\ CatchAndFinish(k, "Failed to fetch: " \o ToString(r.status) \o " " \o r.statusText)

\* fetch rejects
FetchRejects(k, m) ==
    /\ k \in 1..Len(inflight)
    /\ CatchAndFinish(k, m)

\* fetch resolves with response.ok, response.text() rejects
TextRejects(k, m) ==
    /\ k \in 1..Len(inflight)
    /\ CatchAndFinish(k, m)

FetchSettles ==
    \E k \in 1..Len(inflight) :
        \/ \E doc \in Docs : FetchOk(k, doc)
        \/ \E r \in StatusFailures : FetchNotOk(k, r)
        \/ \E m \in RejectMessages : FetchRejects(k, m)
        \/ \E m \in RejectMessages : TextRejects(k, m)

handleCopyToClipboard ==
    /\ ResultsVisible
    /\ output' = [kind |-> "clipboard", text |-> formatResultsForExport, name |-> ""]
    /\ UNCHANGED <<url, headings, isLoading, error, analysisSummary, inflight, pc, run>>

handleExportToFile ==
    /\ ResultsVisible
    /\ output' = [ kind |-> "file",
                   text |-> formatResultsForExport,
                   name |-> "heading_analysis_" \o ReplaceNonAlnum(url) \o ".txt" ]
    /\ UNCHANGED <<url, headings, isLoading, error, analysisSummary, inflight, pc, run>>

Next ==
    \/ \E u \in Urls : SetUrl(u)
    \/ RejectEmptyUrl
    \/ StartRun
    \/ FetchSettles
    \/ handleCopyToClipboard
    \/ handleExportToFile

Spec == Init /\ [][Next]_vars

\* A pending fetch settles: it resolves or it rejects.
FairSpec == Spec /\ WF_vars(FetchSettles)

TypeOK ==
    /\ url \in Urls
    /\ isLoading \in BOOLEAN
    /\ pc \in {"none", "rejected", "awaitFetch", "returned"}
    /\ run.status \in {"none", "pending", "ok", "failed"}
    /\ Len(error) <= 1

----------------------------------------------------------------------------
(* Reading a report back *)

\* The text split at its line feeds
SplitLines(s) ==
    LET nl     == {i \in 1..Len(s) : CharAt(s, i) = "\n"}
        at(k)  == IF k = 0 THEN 0
                  ELSE IF k > Cardinality(nl) THEN Len(s) + 1
                  ELSE CHOOSE i \in nl : Cardinality({j \in nl : j < i}) = k - 1
    IN  [ k \in 1..(Cardinality(nl) + 1) |-> SubSeq(s, at(k - 1) + 1, at(k) - 1) ]

RECURSIVE StripIndent(_)
StripIndent(line) ==
    IF Len(line) > 0 /\ CharAt(line, 1) = " "
    THEN StripIndent(SubSeq(line, 2, Len(line)))
    ELSE line

\* A line of the form <indent>H<1..6>: <text>
IsHeadingLine(line) ==
    LET l == StripIndent(line)
    IN  /\ Len(l) >= 4
        /\ CharAt(l, 1) = "H"
        /\ ParseInt(CharAt(l, 2)) \in Levels
        /\ SubSeq(l, 3, 4) = ": "

HeadingOfLine(line) ==
    LET l == StripIndent(line)
    IN  << ParseInt(CharAt(l, 2)), SubSeq(l, 5, Len(l)) >>

RECURSIVE CollectHeadings(_, _)
CollectHeadings(lines, k) ==
    IF k > Len(lines) THEN << >>
    ELSE (IF IsHeadingLine(lines[k]) THEN << HeadingOfLine(lines[k]) >> ELSE << >>)
         \o CollectHeadings(lines, k + 1)

\* The (level, text) pairs of the heading lines of the "Headings Found:" section
ParseHeadingLines(report) ==
    LET lines == SplitLines(report)
        found == {k \in 1..Len(lines) : lines[k] = "Headings Found:"}
        start == CHOOSE k \in found : \A j \in found : k <= j
    IN  IF found = {} THEN << >> ELSE CollectHeadings(lines, start + 1)

----------------------------------------------------------------------------
(* Vocabulary of the properties *)

\* The level a heading element declares in its tag
DeclaredLevel(h) == CHOOSE l \in Levels : h.tagName = "H" \o ToString(l)

SkipIssue(a, b) ==
    "Skipped heading level: H" \o ToString(a) \o " followed by H" \o ToString(b) \o "."

\* Position i (1-based) of the document skips a level after position i-1
SkipsAt(doc, i) == i > 1 /\ DeclaredLevel(doc[i]) > DeclaredLevel(doc[i - 1]) + 1

H1Total(doc) == Cardinality({i \in 1..Len(doc) : DeclaredLevel(doc[i]) = 1})

NoH1Line == "Error: No H1 tag found. Every page should have one H1."
OneH1Line == "Good: Exactly one H1 tag found."
SkippedLine == "Issue: Heading levels are skipped (e.g., H1 followed directly by H3)."
SequenceLine == "Good: Heading levels follow a logical sequence."

Contains(s, sub) ==
    \E i \in 1..(Len(s) - Len(sub) + 1) : SubSeq(s, i, i + Len(sub) - 1) = sub

\* The latest run analysed a document and its results are the ones held
Analysed == run.status = "ok"

----------------------------------------------------------------------------
(* Properties *)

\* C1: the heading at position i carries exactly the issue "Skipped heading
\* level: H{a} followed by H{b}." when it is not the first heading and its
\* level b exceeds the level a of the heading before it by more than one,
\* and carries no issue otherwise.
C1_SkipIssuePerHeading ==
    Analysed =>
        /\ Len(headings) = Len(run.doc)
        /\ \A i \in 1..Len(headings) :
              /\ headings[i].level = DeclaredLevel(run.doc[i])
              /\ headings[i].issues =
                    IF SkipsAt(run.doc, i)
                    THEN << SkipIssue(DeclaredLevel(run.doc[i - 1]), DeclaredLevel(run.doc[i])) >>
                    ELSE << >>

\* Three headings H2, H4, H6: the first is unflagged, the third is flagged
\* after a flagged one.
C1_Witness ==
    /\ Analysed
    /\ Len(headings) = 3
    /\ headings[1].level = 2 /\ headings[1].issues = << >>
    /\ headings[2].issues = << SkipIssue(2, 4) >>
    /\ headings[3].issues = << SkipIssue(4, 6) >>

\* C2: the first summary line is decided by the number n of level-1 headings
\* of the document: none, exactly one, or the warning stating n.
C2_H1LineByCount ==
    Analysed =>
        LET n == H1Total(run.doc)
        IN  /\ Len(analysisSummary) >= 1
            /\ analysisSummary[1] =
                  IF n = 0 THEN NoH1Line
                  ELSE IF n = 1 THEN OneH1Line
                  ELSE "Warning: Multiple H1 tags found (" \o ToString(n)
                       \o "). Best practice is to have only one H1 per page."

C2_Witness ==
    /\ Analysed
    /\ H1Total(run.doc) = 3
    /\ Contains(analysisSummary[1], "(3)")

\* C3: the summary has exactly two lines, the H1 line then the skip line, and
\* the skip line is the issue line iff some heading record carries an issue,
\* which is iff some adjacent pair of the document skips a level.
C3_SkipLineIffIssue ==
    Analysed =>
        LET flagged == \E i \in 1..Len(headings) : headings[i].issues # << >>
            skips   == \E i \in 1..Len(run.doc) : SkipsAt(run.doc, i)
        IN  /\ Len(analysisSummary) = 2
            /\ \/ analysisSummary[1] \in {NoH1Line, OneH1Line}
               \/ StartsWith(analysisSummary[1], "Warning: Multiple H1 tags found (")
            /\ flagged <=> skips
            /\ analysisSummary[2] = IF flagged THEN SkippedLine ELSE SequenceLine

C3_Witness ==
    /\ Analysed
    /\ \E i \in 1..Len(headings) : headings[i].issues # << >>
    /\ analysisSummary[2] = SkippedLine

\* C4: a document without heading elements is analysed without failure and
\* gives no headings and the summary <<no-H1 error, logical-sequence line>>.
C4_EmptyDocument ==
    (Analysed /\ run.doc = << >>) =>
        /\ pc = "returned" => error = null
        /\ headings = << >>
        /\ analysisSummary = << NoH1Line, SequenceLine >>

C4_Witness ==
    /\ Analysed
    /\ pc = "returned"
    /\ run.doc = << >>
    /\ Len(analysisSummary) = 2

\* C5: the heading lines parsed back out of an exported report are the
\* (level, text) pairs of the held headings, in order.
C5_RoundTrip ==
    output.kind # "none" =>
        ParseHeadingLines(output.text)
            = [ i \in 1..Len(headings) |-> << headings[i].level, headings[i].text >> ]

\* C6: the header line of an exported report names the URL entered for the
\* run that produced the held headings and summary.
C6_HeaderNamesRunUrl ==
    output.kind # "none" =>
        StartsWith(output.text, "Heading Structure Analysis for: " \o run.url \o "\n")

\* C7: when a run has finished on a failed fetch, headings and
\* analysisSummary are empty and error is a message containing the failure
\* text.
C7_FailedRunLeavesNothing ==
    (pc = "returned" /\ run.status = "failed") =>
        /\ headings = << >>
        /\ analysisSummary = << >>
        /\ error # null
        /\ Contains(error[1], run.message)

C7_Witness ==
    /\ pc = "returned"
    /\ run.status = "failed"
    /\ run.message = "Failed to fetch: 404 Not Found"
    /\ error # null

\* C8: a trigger with an empty URL issues no fetch, runs no analysis, leaves
\* isLoading false and headings and analysisSummary as they were, and sets
\* error to 'Please enter a URL.'; no fetch is ever issued for an empty URL.
C8_EmptyUrlRejected ==
    [][ /\ \A k \in 1..Len(inflight') : inflight'[k].url # ""
        /\ pc' = "rejected" =>
              /\ inflight = << >> /\ inflight' = << >>
              /\ ~isLoading /\ ~isLoading'
              /\ headings' = headings
              /\ analysisSummary' = analysisSummary
              /\ run' = run
              /\ error' = <<"Please enter a URL.">> ]_vars

C8_Witness ==
    /\ pc = "rejected"
    /\ url = ""
    /\ Len(headings) > 0
    /\ error = <<"Please enter a URL.">>

\* C9: at most one run is outstanding; while it is, the trigger is disabled;
\* and the results held when it has finished are those of its own document.
C9_OneRunAtATime ==
    /\ Len(inflight) <= 1
    /\ isLoading <=> Len(inflight) = 1
    /\ isLoading => ~ENABLED (StartRun \/ RejectEmptyUrl)
    /\ run.status = "pending" => headings = << >> /\ analysisSummary = << >>
    /\ Analysed =>
          /\ headings = analyzeHeadings(run.doc).headingsInfo
          /\ analysisSummary = analyzeHeadings(run.doc).summary

C9_Witness ==
    /\ isLoading
    /\ Len(inflight) = 1
    /\ inflight[1].url = "https://b.org"
    /\ ~ENABLED StartRun

\* C10: a run that passed the empty-URL check has isLoading true until it
\* finishes and, its fetch settling, does finish with isLoading false; then
\* either error is null and the summary is the run's two lines, or error is
\* set and headings and analysisSummary are empty.
C10_RunFinishes ==
    /\ [](pc = "awaitFetch" => isLoading)
    /\ [](pc = "returned" =>
            /\ ~isLoading
            /\ \/ /\ error = null
                  /\ Len(analysisSummary) = 2
                  /\ analysisSummary = analyzeHeadings(run.doc).summary
               \/ /\ error # null
                  /\ headings = << >>
                  /\ analysisSummary = << >>)
    /\ (isLoading ~> ~isLoading)

C10_Witness ==
    /\ pc = "returned"
    /\ ~isLoading
    /\ run.status = "failed"
    /\ run.message = "Failed to fetch"

====
